---------------------------- MODULE Spec2Model ----------------------------
(***************************************************************************)
(* A model of the insider-detection pipeline (package insider_detection):  *)
(* the feature store, the model registry, the ensemble combiner, the       *)
(* wallet graph, the alert dispatcher and the pipeline that runs them.     *)
(*                                                                         *)
(* Python floats are modelled as exact rationals [n |-> .., d |-> ..] in   *)
(* lowest terms with d > 0; rounding error of binary floating point is not *)
(* modelled.  A Python dict is modelled as a sequence of [k, v] entries in *)
(* insertion order (the order dict iteration follows).                     *)
(***************************************************************************)
EXTENDS Integers, Sequences, FiniteSets, TLC

VARIABLES
    models,              \* ModelZoo._models: dict name -> ModelWrapper
    register_error,      \* whether the last ModelZoo.register call raised ValueError
    weights,             \* EnsembleCombiner.weights: dict name -> weight
    critical_threshold,  \* AlertDispatcher.critical_threshold
    high_threshold,      \* AlertDispatcher.high_threshold
    sent_alerts,         \* AlertDispatcher.sent_alerts
    threshold,           \* GraphModule.threshold
    storage,             \* FeatureStore.storage: account -> list of FeatureVector
    config,              \* the pipeline's optional components and markets_of_interest
    alerts,              \* InsiderDetectionPipeline.alerts
    explanations,        \* InsiderDetectionPipeline.explanations
    anomaly_scores,      \* InsiderDetectionPipeline.anomaly_scores
    trades,              \* the batch of TradeEvents the last operation worked on
    processed,           \* history: per account, the trades compute_features has processed
    predictions,         \* the ModelPredictions of the last operation
    combined_scores,     \* the EnsembleScores of the last combine
    score,               \* the score handed to _determine_severity
    severity,            \* the tier _determine_severity returned
    graph,               \* the adjacency build_wallet_graph returned
    communities,         \* the list detect_communities returned
    returned,            \* what the last pipeline entry point returned
    register_arg,        \* the ModelWrapper handed to the last register call
    calls,               \* number of operations performed so far
    completed,           \* history: the inference runs that returned (see NoRuns)
    pc                   \* the last operation performed

vars == <<models, register_error, weights, critical_threshold, high_threshold,
          sent_alerts, threshold, storage, config, alerts, explanations,
          anomaly_scores, trades, processed, predictions, combined_scores,
          score, severity, graph, communities, returned, register_arg, calls,
          completed, pc>>

---------------------------------------------------------------------------
(* Exact rationals standing for Python floats.                             *)

Abs(x) == IF x < 0 THEN -x ELSE x

RECURSIVE GCD(_, _)
GCD(a, b) == IF b = 0 THEN a ELSE GCD(b, a % b)

Rat(n, d) ==
    LET s == IF d < 0 THEN -1 ELSE 1
        g == GCD(Abs(n), Abs(d))
    IN  [n |-> (s * n) \div g, d |-> (s * d) \div g]

RatInt(i) == [n |-> i, d |-> 1]
RatAdd(x, y) == Rat(x.n * y.d + y.n * x.d, x.d * y.d)
RatSub(x, y) == Rat(x.n * y.d - y.n * x.d, x.d * y.d)
RatMul(x, y) == Rat(x.n * y.n, x.d * y.d)
RatGE(x, y) == x.n * y.d >= y.n * x.d
RatAbs(x) == [n |-> Abs(x.n), d |-> x.d]
RatMax(x, y) == IF RatGE(x, y) THEN x ELSE y

\* The value standing for a raised ZeroDivisionError (no rational has d = 0).
ZeroDivisionError == [n |-> 0, d |-> 0]
\* The value standing for statistics.StatisticsError (mean of no data).
StatisticsError == [n |-> 1, d |-> 0]
IsError(x) == x.d = 0

\* Python's x / y on floats: raises ZeroDivisionError when y == 0.
RatDiv(x, y) == IF y.n = 0 THEN ZeroDivisionError ELSE Rat(x.n * y.d, x.d * y.n)

---------------------------------------------------------------------------
(* Python dicts: sequences of [k, v] entries in insertion order.           *)

DictKeys(d) == {d[i].k : i \in 1..Len(d)}
DictHas(d, key) == \E i \in 1..Len(d) : d[i].k = key
DictIndex(d, key) == CHOOSE i \in 1..Len(d) : d[i].k = key
DictGet(d, key, default) == IF DictHas(d, key) THEN d[DictIndex(d, key)].v ELSE default
\* d[key] = value: an existing key keeps its position, a new key goes last.
DictSet(d, key, value) ==
    IF DictHas(d, key)
    THEN [d EXCEPT ![DictIndex(d, key)] = [k |-> key, v |-> value]]
    ELSE Append(d, [k |-> key, v |-> value])

RECURSIVE SeqSum(_)
SeqSum(s) == IF s = <<>> THEN RatInt(0) ELSE RatAdd(s[1], SeqSum(Tail(s)))

\* statistics.mean: the exact mean; raises StatisticsError on no data.
mean(values) ==
    IF values = <<>> THEN StatisticsError
    ELSE RatDiv(SeqSum(values), RatInt(Len(values)))

DictValues(d) == [i \in 1..Len(d) |-> d[i].v]


---------------------------------------------------------------------------
(* interfaces/alerts.py: AlertDispatcher.                                  *)

\* The fixed third breakpoint of _determine_severity (0.5).
MediumThreshold == Rat(1, 2)
\* The constructor's defaults: critical_threshold = 0.9, high_threshold = 0.7.
DefaultCritical == Rat(9, 10)
DefaultHigh == Rat(7, 10)

\* A faulty variant of _determine_severity: strict comparisons, so a score
\* on a breakpoint falls into the lower tier.
determine_severity_strict(s, crit, high) ==
    IF ~RatGE(crit, s) THEN "critical"
    ELSE IF ~RatGE(high, s) THEN "high"
    ELSE IF ~RatGE(MediumThreshold, s) THEN "medium"
    ELSE "info"

_determine_severity(s, crit, high) ==
    IF RatGE(s, crit) THEN "critical"
    ELSE IF RatGE(s, high) THEN "high"
    ELSE IF RatGE(s, MediumThreshold) THEN "medium"
    ELSE "info"

\* format(x, ".2f"): x rounded to hundredths, ties to even; the result is the
\* number of hundredths.
Round2(x) ==
    LET q == (100 * x.n) \div x.d
        r == (100 * x.n) % x.d
    IN  IF 2 * r > x.d THEN q + 1
        ELSE IF 2 * r < x.d THEN q
        ELSE IF q % 2 = 0 THEN q ELSE q + 1

\* The f-string of create_alerts: determined by the three values it formats.
Message(entity_id, sev, s) == [account |-> entity_id, severity |-> sev, score2f |-> Round2(s)]

\* A faulty variant of create_alerts: info-tier scores are not skipped.
create_alerts_unfiltered(ensemble_scores, crit, high) ==
    [i \in 1..Len(ensemble_scores) |->
        LET es == ensemble_scores[i]
            sev == _determine_severity(es.score, crit, high)
        IN  [entity_id |-> es.entity_id, score |-> es.score, severity |-> sev,
             message |-> Message(es.entity_id, sev, es.score)]]

RECURSIVE create_alerts(_, _, _)
create_alerts(ensemble_scores, crit, high) ==
    IF ensemble_scores = <<>> THEN <<>>
    ELSE LET es == Head(ensemble_scores)
             sev == _determine_severity(es.score, crit, high)
             rest == create_alerts(Tail(ensemble_scores), crit, high)
         IN  IF sev = "info" THEN rest
             ELSE <<[entity_id |-> es.entity_id, score |-> es.score,
                     severity |-> sev,
                     message |-> Message(es.entity_id, sev, es.score)]>> \o rest

\* A faulty variant of dispatch: the sink keeps only the latest alerts.
dispatch_replacing(sink, new_alerts) == new_alerts

\* AlertDispatcher.dispatch: sent_alerts.extend(alerts).
dispatch(sink, new_alerts) == sink \o new_alerts

---------------------------------------------------------------------------
(* ensemble.py: EnsembleCombiner.                                          *)

\* The loop of _weighted_average over model_scores.items(): the pair
\* <<total_weight, weighted_sum>> after the items of ms, from acc.
RECURSIVE WeightLoop(_, _, _)
WeightLoop(ms, w, acc) ==
    IF ms = <<>> THEN acc
    ELSE LET weight == DictGet(w, Head(ms).k, RatInt(0))
         IN  WeightLoop(Tail(ms), w,
                        <<RatAdd(acc[1], weight),
                          RatAdd(acc[2], RatMul(weight, Head(ms).v))>>)

\* A faulty variant of _weighted_average: no fallback to the mean when the
\* total weight is zero.
weighted_average_no_fallback(model_scores, w) ==
    IF model_scores = <<>> THEN RatInt(0)
    ELSE IF w = <<>> THEN mean(DictValues(model_scores))
    ELSE LET acc == WeightLoop(model_scores, w, <<RatInt(0), RatInt(0)>>)
         IN  RatDiv(acc[2], acc[1])

_weighted_average(model_scores, w) ==
    IF model_scores = <<>> THEN RatInt(0)
    ELSE IF w = <<>> THEN mean(DictValues(model_scores))
    ELSE LET acc == WeightLoop(model_scores, w, <<RatInt(0), RatInt(0)>>)
             total_weight == acc[1]
             weighted_sum == acc[2]
         IN  IF total_weight.n # 0 THEN RatDiv(weighted_sum, total_weight)
             ELSE mean(DictValues(model_scores))

\* The first loop of combine: grouped[entity_id][model_name] = score.
RECURSIVE Group(_, _)
Group(preds, grouped) ==
    IF preds = <<>> THEN grouped
    ELSE LET p == Head(preds)
             inner == DictGet(grouped, p.entity_id, <<>>)
         IN  Group(Tail(preds),
                   DictSet(grouped, p.entity_id, DictSet(inner, p.model_name, p.score)))

\* A faulty variant of combine: one EnsembleScore per prediction, without
\* grouping by entity.
combine_ungrouped(preds, w) ==
    [i \in 1..Len(preds) |->
        LET ms == <<[k |-> preds[i].model_name, v |-> preds[i].score]>>
        IN  [entity_id |-> preds[i].entity_id,
             score |-> _weighted_average(ms, w),
             breakdown |-> ms]]

combine(preds, w) ==
    LET grouped == Group(preds, <<>>)
    IN  [i \in 1..Len(grouped) |->
            [entity_id |-> grouped[i].k,
             score |-> _weighted_average(grouped[i].v, w),
             breakdown |-> grouped[i].v]]

\* aggregate_statistics: mean score per model name over all predictions.
RECURSIVE ByModel(_, _)
ByModel(preds, by_model) ==
    IF preds = <<>> THEN by_model
    ELSE LET p == Head(preds)
         IN  ByModel(Tail(preds),
                     DictSet(by_model, p.model_name,
                             Append(DictGet(by_model, p.model_name, <<>>), p.score)))

aggregate_statistics(preds) ==
    LET by_model == ByModel(preds, <<>>)
    IN  [i \in 1..Len(by_model) |-> [k |-> by_model[i].k, v |-> mean(by_model[i].v)]]

---------------------------------------------------------------------------
(* feature_store.py: FeatureStore.  A TradeEvent is a record               *)
(* [account_id, market_id, timestamp, outcome, size, price]; timestamp is  *)
(* in whole seconds, size and price are rationals.  (trade_id is read by   *)
(* no code and is left out.)                                               *)

SecondsPerDay == 86400

\* str.lower() on the outcome labels used here.
Lower(str) ==
    CASE str = "YES" -> "yes"
      [] str = "Yes" -> "yes"
      [] str = "NO" -> "no"
      [] OTHER -> str

\* A faulty variant of _rolling_average: it reads the first vector of the
\* history instead of the last.
rolling_average_first(store, account_id, new_value) ==
    LET history == store[account_id]
    IN  IF history = <<>> THEN new_value
        ELSE RatAdd(RatMul(Rat(1, 2), history[1].features.avg_trade_size),
                    RatMul(Rat(1, 2), new_value))

_rolling_average(store, account_id, new_value) ==
    LET history == store[account_id]
    IN  IF history = <<>> THEN new_value
        ELSE LET f == history[Len(history)].features
                 last == IF "avg_trade_size" \in DOMAIN f THEN f.avg_trade_size
                         ELSE new_value
             IN  RatAdd(RatMul(Rat(1, 2), last), RatMul(Rat(1, 2), new_value))

_profit_proxy(trade) ==
    LET direction == IF Lower(trade.outcome) \in {"yes", "win"} THEN RatInt(1)
                     ELSE RatInt(-1)
    IN  RatMul(direction, RatSub(RatInt(1), trade.price))

\* Seconds since the midnight of the trade's day, at least 1.0.
_time_to_resolution_proxy(trade) ==
    RatMax(RatInt(trade.timestamp % SecondsPerDay), RatInt(1))

\* The loop body of compute_features: the FeatureVector of one trade.
VectorOf(store, trade) ==
    [entity_id |-> trade.account_id,
     features |-> [avg_trade_size |-> _rolling_average(store, trade.account_id, trade.size),
                   profit_proxy |-> _profit_proxy(trade),
                   time_to_resolution_est |-> _time_to_resolution_proxy(trade)],
     as_of |-> trade.timestamp]

\* storage[account_id].append(vector)
StoreAppend(store, vector) ==
    [store EXCEPT ![vector.entity_id] = Append(@, vector)]

\* compute_features: the pair [storage, computed] after the trades of batch.
RECURSIVE ComputeLoop(_, _, _)
ComputeLoop(store, batch, computed) ==
    IF batch = <<>> THEN [storage |-> store, computed |-> computed]
    ELSE LET vector == VectorOf(store, Head(batch))
         IN  ComputeLoop(StoreAppend(store, vector), Tail(batch), Append(computed, vector))

compute_features(store, batch) == ComputeLoop(store, batch, <<>>)

latest_features(store, entity_id) ==
    IF store[entity_id] = <<>> THEN <<>> ELSE <<store[entity_id][Len(store[entity_id])]>>

---------------------------------------------------------------------------
(* sequence_module.py: SequenceModule.                                     *)

\* _positional_encoding: the sum over positions 0..n-1 of the sinusoid
\* basis.  It reads the trades only through their number n, so the embedding
\* is represented by n.
_positional_encoding(trade_seq) == [positions |-> Len(trade_seq)]

RECURSIVE GroupByAccount(_, _)
GroupByAccount(batch, seqs) ==
    IF batch = <<>> THEN seqs
    ELSE LET t == Head(batch)
         IN  GroupByAccount(Tail(batch),
                            DictSet(seqs, t.account_id,
                                    Append(DictGet(seqs, t.account_id, <<>>), t)))

encode(batch) ==
    LET seqs == GroupByAccount(batch, <<>>)
    IN  [i \in 1..Len(seqs) |->
            [entity_id |-> seqs[i].k, values |-> _positional_encoding(seqs[i].v)]]

\* embed_lookup = {embedding.entity_id: embedding}; a later embedding of the
\* same entity replaces an earlier one.
EmbedFound(embeddings, entity_id) ==
    \E i \in 1..Len(embeddings) : embeddings[i].entity_id = entity_id
EmbedLookup(embeddings, entity_id) ==
    LET last == CHOOSE i \in 1..Len(embeddings) :
                    /\ embeddings[i].entity_id = entity_id
                    /\ \A j \in (i+1)..Len(embeddings) : embeddings[j].entity_id # entity_id
    IN  embeddings[last]

\* The seq_0 .. seq_{dim-1} features are kept together as one field seq.
enrich_features(features, embeddings) ==
    [i \in 1..Len(features) |->
        IF EmbedFound(embeddings, features[i].entity_id)
        THEN [entity_id |-> features[i].entity_id,
              features |-> [avg_trade_size |-> features[i].features.avg_trade_size,
                            profit_proxy |-> features[i].features.profit_proxy,
                            time_to_resolution_est |->
                                features[i].features.time_to_resolution_est,
                            seq |-> EmbedLookup(embeddings, features[i].entity_id).values],
              as_of |-> features[i].as_of]
        ELSE features[i]]

---------------------------------------------------------------------------
(* model_zoo.py: ModelWrapper and ModelZoo.  A ModelWrapper is a record    *)
(* [name, model, postprocess].                                             *)

\* PredictiveModel is a protocol the caller implements.  Three sample models:
\*   "size":   avg_trade_size / 10, at most 1
\*   "profit": profit_proxy, at least 0
\*   "burst":  0.9 when the entity has several trades in the batch (needs the
\*             sequence features), else 0.1
predict_proba(model, features) ==
    CASE model = "size" ->
            IF RatGE(features.avg_trade_size, RatInt(10)) THEN RatInt(1)
            ELSE RatDiv(features.avg_trade_size, RatInt(10))
      [] model = "profit" -> RatMax(features.profit_proxy, RatInt(0))
      [] OTHER ->
            IF "seq" \in DOMAIN features /\ features.seq.positions > 1
            THEN Rat(9, 10) ELSE Rat(1, 10)

\* The optional postprocess callable: "None", or "sharpen" (x -> x * x).
Postprocess(kind, raw_score) ==
    IF kind = "None" THEN raw_score ELSE RatMul(raw_score, raw_score)

predict(wrapper, feature_vector) ==
    LET raw_score == predict_proba(wrapper.model, feature_vector.features)
    IN  [model_name |-> wrapper.name,
         entity_id |-> feature_vector.entity_id,
         score |-> Postprocess(wrapper.postprocess, raw_score),
         metadata |-> [raw_score |-> raw_score]]

\* A faulty variant of register: a name already registered is overwritten
\* (latest wins).
register_overwrite(registry, wrapper) ==
    [models |-> DictSet(registry, wrapper.name, wrapper), raised |-> FALSE]

\* ModelZoo.register: the registry afterwards and whether ValueError was raised.
register(registry, wrapper) ==
    IF DictHas(registry, wrapper.name)
    THEN [models |-> registry, raised |-> TRUE]
    ELSE [models |-> DictSet(registry, wrapper.name, wrapper), raised |-> FALSE]

\* ModelZoo.__init__: register each given wrapper; the first ValueError ends
\* the construction.
RECURSIVE ZooInit(_, _)
ZooInit(registry, wrappers) ==
    IF wrappers = <<>> THEN [models |-> registry, raised |-> FALSE]
    ELSE LET r == register(registry, Head(wrappers))
         IN  IF r.raised THEN r ELSE ZooInit(r.models, Tail(wrappers))

iter_models(registry) == DictValues(registry)

---------------------------------------------------------------------------
(* graph_module.py: GraphModule.                                           *)

_co_trading_weight(a, b) ==
    LET same_direction == IF a.outcome = b.outcome THEN RatInt(1) ELSE Rat(1, 2)
        size_similarity ==
            RatSub(RatInt(1),
                   RatDiv(RatAbs(RatSub(a.size, b.size)),
                          RatMax(RatMax(a.size, b.size), RatInt(1))))
        time_gap == RatInt(Abs(a.timestamp - b.timestamp) + 1)
    IN  RatDiv(RatMul(same_direction, size_similarity), time_gap)

\* trades_by_market[trade.market_id].append(trade)
RECURSIVE ByMarket(_, _)
ByMarket(batch, by_market) ==
    IF batch = <<>> THEN by_market
    ELSE LET t == Head(batch)
         IN  ByMarket(Tail(batch),
                      DictSet(by_market, t.market_id,
                              Append(DictGet(by_market, t.market_id, <<>>), t)))

\* A faulty variant of AdjAdd: the weight is stored, not accumulated.
AdjAdd_overwrite(adjacency, x, y, w) ==
    DictSet(adjacency, x, DictSet(DictGet(adjacency, x, <<>>), y, w))

\* adjacency[x][y] += w on a defaultdict of defaultdict(float).
AdjAdd(adjacency, x, y, w) ==
    LET inner == DictGet(adjacency, x, <<>>)
    IN  DictSet(adjacency, x, DictSet(inner, y, RatAdd(DictGet(inner, y, RatInt(0)), w)))

\* A faulty variant of PairStep: the reverse edge is not recorded.
PairStep_one_way(adjacency, trade_i, trade_j, th) ==
    LET weight == _co_trading_weight(trade_i, trade_j)
    IN  IF RatGE(weight, th)
        THEN AdjAdd(adjacency, trade_i.account_id, trade_j.account_id, weight)
        ELSE adjacency

\* The body of the pair loop for trade_i, trade_j.
PairStep(adjacency, trade_i, trade_j, th) ==
    LET weight == _co_trading_weight(trade_i, trade_j)
    IN  IF RatGE(weight, th)
        THEN AdjAdd(AdjAdd(adjacency, trade_i.account_id, trade_j.account_id, weight),
                    trade_j.account_id, trade_i.account_id, weight)
        ELSE adjacency

\* for i, trade_i in enumerate(market_trades): for trade_j in market_trades[i+1:]
RECURSIVE PairLoop(_, _, _, _, _)
PairLoop(market_trades, i, j, adjacency, th) ==
    IF i > Len(market_trades) THEN adjacency
    ELSE IF j > Len(market_trades) THEN PairLoop(market_trades, i + 1, i + 2, adjacency, th)
    ELSE PairLoop(market_trades, i, j + 1,
                  PairStep(adjacency, market_trades[i], market_trades[j], th), th)

\* for market_id, market_trades in trades_by_market.items()
RECURSIVE MarketLoop(_, _, _)
MarketLoop(by_market, adjacency, th) ==
    IF by_market = <<>> THEN adjacency
    ELSE MarketLoop(Tail(by_market),
                    PairLoop(Head(by_market).v, 1, 2, adjacency, th), th)

\* The returned mapping: node -> list of GraphEdge(source, target, weight).
build_wallet_graph(batch, th) ==
    LET adjacency == MarketLoop(ByMarket(batch, <<>>), <<>>, th)
    IN  [i \in 1..Len(adjacency) |->
            [k |-> adjacency[i].k,
             v |-> [e \in 1..Len(adjacency[i].v) |->
                       [source |-> adjacency[i].k,
                        target |-> adjacency[i].v[e].k,
                        weight |-> adjacency[i].v[e].v]]]]

\* for edge in graph.get(current, []): the pair [visited, queue] afterwards.
RECURSIVE EdgeLoop(_, _, _)
EdgeLoop(edges, visited, queue) ==
    IF edges = <<>> THEN [visited |-> visited, queue |-> queue]
    ELSE IF Head(edges).target \notin visited
    THEN EdgeLoop(Tail(edges), visited \cup {Head(edges).target},
                  Append(queue, Head(edges).target))
    ELSE EdgeLoop(Tail(edges), visited, queue)

\* A faulty variant of Bfs: only the direct neighbours of the start node
\* join its community.
Bfs_one_level(g, queue, visited, community) ==
    LET current == Head(queue)
        r == EdgeLoop(DictGet(g, current, <<>>), visited, <<>>)
    IN  [visited |-> r.visited,
         community |-> {current} \cup {r.queue[i] : i \in 1..Len(r.queue)}]

\* while queue: the pair [visited, community] when the queue is empty.
RECURSIVE Bfs(_, _, _, _)
Bfs(g, queue, visited, community) ==
    IF queue = <<>> THEN [visited |-> visited, community |-> community]
    ELSE LET current == Head(queue)
             r == EdgeLoop(DictGet(g, current, <<>>), visited, Tail(queue))
         IN  Bfs(g, r.queue, r.visited, community \cup {current})

\* for node in graph: the list of communities.
RECURSIVE NodeLoop(_, _, _, _)
NodeLoop(g, nodes, visited, found) ==
    IF nodes = <<>> THEN found
    ELSE LET node == Head(nodes).k
         IN  IF node \in visited THEN NodeLoop(g, Tail(nodes), visited, found)
             ELSE LET r == Bfs(g, <<node>>, visited \cup {node}, {})
                  IN  NodeLoop(g, Tail(nodes), r.visited, Append(found, r.community))

detect_communities(g) == NodeLoop(g, g, {}, <<>>)

---------------------------------------------------------------------------
(* anomaly_module.py and explainability.py.                                *)

\* AnomalyDetector is a protocol the caller implements.  One sample
\* detector, "big": avg_trade_size itself.
DetectorScore(detector, features) == features.avg_trade_size

\* AnomalyModule.run: one AnomalyScore per feature vector and detector.
RECURSIVE AnomalyRun(_, _)
AnomalyRun(detectors, vectors) ==
    IF vectors = <<>> THEN <<>>
    ELSE [d \in 1..Len(detectors) |->
            [entity_id |-> Head(vectors).entity_id,
             detector_name |-> detectors[d],
             score |-> DetectorScore(detectors[d], Head(vectors).features)]]
         \o AnomalyRun(detectors, Tail(vectors))

\* ExplainabilityModule.build_explanations is a pure function of the
\* features and the ensemble score: top_features is determined by features,
\* narrative by the score (to two decimals) and the breakdown.
build_explanations(features, ensemble_score) ==
    [entity_id |-> ensemble_score.entity_id,
     top_features |-> features,
     narrative |-> [score2f |-> Round2(ensemble_score.score),
                    models |-> [i \in 1..Len(ensemble_score.breakdown) |->
                                   [k |-> ensemble_score.breakdown[i].k,
                                    v |-> Round2(ensemble_score.breakdown[i].v)]]]]

---------------------------------------------------------------------------
(* pipeline.py: InsiderDetectionPipeline.  config holds which optional     *)
(* components are present (TRUE) or None (FALSE), the anomaly detectors,   *)
(* and markets_of_interest as [none, markets].                             *)

_load_trade_events(cfg, recent) ==
    IF cfg.markets_of_interest.none THEN recent
    ELSE SelectSeq(recent, LAMBDA t : t.market_id \in cfg.markets_of_interest.markets)

_enrich_with_sequences(cfg, batch, features) ==
    IF ~cfg.sequence_module THEN features
    ELSE enrich_features(features, encode(batch))

\* A faulty variant of _generate_predictions: one prediction per model and
\* entity, from the entity's last feature vector.
generate_predictions_per_entity(registry, feature_vectors) ==
    LET keep == SelectSeq([i \in 1..Len(feature_vectors) |-> i],
                          LAMBDA i : \A j \in (i+1)..Len(feature_vectors) :
                              feature_vectors[j].entity_id # feature_vectors[i].entity_id)
        pairs == [x \in 1..(Len(keep) * Len(registry)) |->
                    <<keep[((x - 1) \div Len(registry)) + 1], ((x - 1) % Len(registry)) + 1>>]
    IN  [x \in 1..Len(pairs) |->
            predict(iter_models(registry)[pairs[x][2]], feature_vectors[pairs[x][1]])]

\* for features in feature_vectors: for model in iter_models(): append
RECURSIVE _generate_predictions(_, _)
_generate_predictions(registry, feature_vectors) ==
    IF feature_vectors = <<>> THEN <<>>
    ELSE [m \in 1..Len(registry) |-> predict(iter_models(registry)[m], Head(feature_vectors))]
         \o _generate_predictions(registry, Tail(feature_vectors))

_run_anomaly_detectors(cfg, feature_vectors) ==
    IF ~cfg.anomaly_module THEN <<>>
    ELSE AnomalyRun(cfg.detectors, feature_vectors)

\* feature_lookup = {vector.entity_id: vector}: the last vector of an entity.
LookupHas(feature_vectors, entity_id) ==
    \E i \in 1..Len(feature_vectors) : feature_vectors[i].entity_id = entity_id
Lookup(feature_vectors, entity_id) ==
    LET last == CHOOSE i \in 1..Len(feature_vectors) :
                    /\ feature_vectors[i].entity_id = entity_id
                    /\ \A j \in (i+1)..Len(feature_vectors) :
                           feature_vectors[j].entity_id # entity_id
    IN  feature_vectors[last]

RECURSIVE ExplainLoop(_, _)
ExplainLoop(feature_vectors, scores) ==
    IF scores = <<>> THEN <<>>
    ELSE IF ~LookupHas(feature_vectors, Head(scores).entity_id)
    THEN ExplainLoop(feature_vectors, Tail(scores))
    ELSE <<build_explanations(Lookup(feature_vectors, Head(scores).entity_id).features,
                              Head(scores))>>
         \o ExplainLoop(feature_vectors, Tail(scores))

_build_explanations(cfg, feature_vectors, scores) ==
    IF ~cfg.explainability THEN <<>>
    ELSE ExplainLoop(feature_vectors, scores)

\* The values run_inference computes, in the order it computes them.
InferenceRun(recent) ==
    LET trade_events == _load_trade_events(config, recent)
        cf == compute_features(storage, trade_events)
        feature_vectors == _enrich_with_sequences(config, trade_events, cf.computed)
        preds == _generate_predictions(models, feature_vectors)
        anomalies == _run_anomaly_detectors(config, feature_vectors)
        combined == combine(preds, weights)
        expl == _build_explanations(config, feature_vectors, combined)
        new_alerts == create_alerts(combined, critical_threshold, high_threshold)
    IN  [trade_events |-> trade_events, storage |-> cf.storage, predictions |-> preds,
         anomaly_scores |-> anomalies, combined_scores |-> combined,
         explanations |-> expl, alerts |-> new_alerts,
         sent_alerts |-> dispatch(sent_alerts, new_alerts)]

\* The caller-supplied parts run_inference calls into, in the order it
\* reaches them: the sequence encoder, the registered models, the anomaly
\* detectors, the explainability component.
Stages == {"sequence_module", "model", "anomaly_module", "explainability"}

\* Whether run_inference on this batch calls into the part named stage, so
\* that an exception raised by that part ends the run there.  There is one
\* feature vector per loaded trade: predict is called once per vector and
\* model, score once per vector and detector, build_explanations once per
\* combined score, and encode once per run.
Invoked(stage, recent) ==
    LET trade_events == _load_trade_events(config, recent)
    IN  CASE stage = "sequence_module" -> config.sequence_module
          [] stage = "model" -> trade_events # <<>> /\ models # <<>>
          [] stage = "anomaly_module" ->
                config.anomaly_module /\ trade_events # <<>> /\ config.detectors # <<>>
          [] OTHER -> config.explainability /\ trade_events # <<>> /\ models # <<>>

\* run_inference when the part named stage raises: the statements before the
\* call have taken effect, the exception leaves run_inference through every
\* frame (there is no try), and the statements after it never run.
\* compute_features (line 40) precedes every stage; self.anomaly_scores is
\* assigned (line 44) before _build_explanations is called (line 47).
InferenceFailure(recent, stage) ==
    LET trade_events == _load_trade_events(config, recent)
        cf == compute_features(storage, trade_events)
        feature_vectors == _enrich_with_sequences(config, trade_events, cf.computed)
    IN  [trade_events |-> trade_events,
         storage |-> cf.storage,
         anomaly_scores |->
            IF stage = "explainability"
            THEN _run_anomaly_detectors(config, feature_vectors)
            ELSE anomaly_scores]

\* The values run_backtest computes; metrics is the dict it returns, and
\* anomaly_scores is its local variable of that name.
BacktestRun(historical_trades) ==
    LET trades_list == historical_trades
        cf == compute_features(storage, trades_list)
        feature_vectors == _enrich_with_sequences(config, trades_list, cf.computed)
        preds == _generate_predictions(models, feature_vectors)
        m0 == aggregate_statistics(preds)
        m1 == IF config.graph_module
              THEN DictSet(m0, "communities_detected",
                           RatInt(Len(detect_communities(
                                      build_wallet_graph(trades_list, threshold)))))
              ELSE m0
        anomalies == _run_anomaly_detectors(config, feature_vectors)
        m2 == IF anomalies # <<>>
              THEN DictSet(m1, "avg_anomaly_score",
                           RatDiv(SeqSum([i \in 1..Len(anomalies) |-> anomalies[i].score]),
                                  RatInt(Len(anomalies))))
              ELSE m1
    IN  [storage |-> cf.storage, predictions |-> preds, anomaly_scores |-> anomalies,
         metrics |-> m2]

---------------------------------------------------------------------------
(* The state of the objects, and the values a variable holds before the    *)
(* operation that sets it has run.                                         *)

Accounts == {"a", "b", "c"}
Markets == {"m1", "m2"}
ModelNames == {"size", "profit", "burst"}

NoWrapper == [name |-> "", model |-> "", postprocess |-> "None"]
NoConfig ==
    [sequence_module |-> FALSE, graph_module |-> FALSE, anomaly_module |-> FALSE,
     explainability |-> FALSE, detectors |-> <<>>,
     markets_of_interest |-> [none |-> TRUE, markets |-> {}]]
EmptyStorage == [acc \in Accounts |-> <<>>]

\* The retained state of a pipeline that has not run: the three lists are empty.
NoRun == [alerts |-> <<>>, explanations |-> <<>>, anomaly_scores |-> <<>>]
\* The history of completed inference runs: last is what the most recent one
\* assigned to alerts, explanations and anomaly_scores, runs collects what
\* each of them assigned, and sent is their alert lists one after the other.
NoRuns == [last |-> NoRun, runs |-> {}, sent |-> <<>>]

zooVars == <<models, register_error, register_arg>>
ensembleVars == <<weights, predictions, combined_scores>>
alertVars == <<critical_threshold, high_threshold, sent_alerts, score, severity>>
graphVars == <<threshold, graph, communities>>
storeVars == <<storage, processed>>
pipeVars == <<config, alerts, explanations, anomaly_scores, returned, completed>>

\* ModelZoo(): self._models = {}
ZooFresh == models = <<>> /\ register_error = FALSE /\ register_arg = NoWrapper
\* EnsembleCombiner(): self.weights = {}
EnsembleFresh == weights = <<>> /\ predictions = <<>> /\ combined_scores = <<>>
\* AlertDispatcher(): the default thresholds and an empty sink
AlertFresh ==
    /\ critical_threshold = DefaultCritical /\ high_threshold = DefaultHigh
    /\ sent_alerts = <<>> /\ score = RatInt(0) /\ severity = "none"
\* GraphModule(): threshold = 0.7
GraphFresh == threshold = Rat(7, 10) /\ graph = <<>> /\ communities = <<>>
\* FeatureStore(): storage = defaultdict(list)
StoreFresh == storage = EmptyStorage /\ processed = EmptyStorage
\* InsiderDetectionPipeline: alerts, explanations, anomaly_scores start empty
PipeFresh ==
    /\ config = NoConfig /\ alerts = <<>> /\ explanations = <<>>
    /\ anomaly_scores = <<>> /\ returned = <<>> /\ completed = NoRuns

---------------------------------------------------------------------------
(* SpecSeverity: an AlertDispatcher constructed with some thresholds       *)
(* classifies scores.                                                      *)

ScoreGrid == 100
Scores == {Rat(k, ScoreGrid) : k \in 0..ScoreGrid}
CriticalChoices == {DefaultCritical, Rat(4, 5), Rat(3, 5)}
HighChoices == {DefaultHigh, Rat(3, 5), Rat(2, 5)}

InitSeverity ==
    /\ ZooFresh /\ EnsembleFresh /\ GraphFresh /\ StoreFresh /\ PipeFresh
    /\ critical_threshold \in CriticalChoices
    /\ high_threshold \in HighChoices
    /\ sent_alerts = <<>> /\ score = RatInt(0) /\ severity = "none"
    /\ trades = <<>> /\ calls = 0 /\ pc = "init"

DetermineSeverity ==
    \E s \in Scores :
        /\ pc = "init"
        /\ score' = s
        /\ severity' = _determine_severity(s, critical_threshold, high_threshold)
        /\ pc' = "_determine_severity"
        /\ UNCHANGED <<zooVars, ensembleVars, graphVars, storeVars, pipeVars,
                       critical_threshold, high_threshold, sent_alerts, trades, calls>>

NextSeverity == DetermineSeverity
SpecSeverity == InitSeverity /\ [][NextSeverity]_vars

---------------------------------------------------------------------------
(* SpecEnsemble: an EnsembleCombiner constructed with some weights         *)
(* combines lists of predictions.                                          *)

MaxPredictions == 3

WeightChoices ==
    { <<>>,
      <<[k |-> "size", v |-> RatInt(1)], [k |-> "profit", v |-> RatInt(0)]>>,
      <<[k |-> "size", v |-> RatInt(1)]>>,
      <<[k |-> "burst", v |-> RatInt(2)]>>,
      <<[k |-> "size", v |-> RatInt(1)], [k |-> "profit", v |-> RatInt(-1)]>>,
      <<[k |-> "size", v |-> RatInt(3)], [k |-> "profit", v |-> RatInt(1)]>> }

PredictionChoices ==
    [model_name : {"size", "profit"}, entity_id : {"a", "b"},
     score : {Rat(1, 5), Rat(4, 5)}, metadata : {[raw_score |-> Rat(1, 5)]}]

PredictionLists ==
    UNION {[1..n -> PredictionChoices] : n \in 0..MaxPredictions}

InitEnsemble ==
    /\ ZooFresh /\ AlertFresh /\ GraphFresh /\ StoreFresh /\ PipeFresh
    /\ weights \in WeightChoices
    /\ predictions = <<>> /\ combined_scores = <<>>
    /\ trades = <<>> /\ calls = 0 /\ pc = "init"

Combine ==
    \E preds \in PredictionLists :
        /\ pc = "init"
        /\ predictions' = preds
        /\ combined_scores' = combine(preds, weights)
        /\ pc' = "combine"
        /\ UNCHANGED <<zooVars, alertVars, graphVars, storeVars, pipeVars,
                       weights, trades, calls>>

NextEnsemble == Combine
SpecEnsemble == InitEnsemble /\ [][NextEnsemble]_vars

---------------------------------------------------------------------------
(* SpecFeatures: compute_features is called on one batch after another.    *)

MaxHistory == 4

\* Trades of two accounts and three sizes; the other fields are fixed.
FeatureTrades ==
    [account_id : {"a", "b"}, market_id : {"m1"}, timestamp : {0},
     outcome : {"yes"}, size : {RatInt(0), RatInt(2), RatInt(10)},
     price : {Rat(3, 10)}]

HistoryLength == Len(processed["a"]) + Len(processed["b"]) + Len(processed["c"])

\* The trades of batch made by account acc, in batch order.
TradesOf(batch, acc) == SelectSeq(batch, LAMBDA t : t.account_id = acc)

InitFeatures ==
    /\ ZooFresh /\ EnsembleFresh /\ AlertFresh /\ GraphFresh /\ StoreFresh /\ PipeFresh
    /\ trades = <<>> /\ calls = 0 /\ pc = "init"

ComputeFeatures ==
    \E n \in 0..(MaxHistory - HistoryLength) :
        \E batch \in [1..n -> FeatureTrades] :
            LET r == compute_features(storage, batch)
            IN  /\ storage' = r.storage
                /\ returned' = r.computed
                /\ trades' = batch
                /\ processed' = [acc \in Accounts |-> processed[acc] \o TradesOf(batch, acc)]
                /\ pc' = "compute_features"
                /\ UNCHANGED <<zooVars, ensembleVars, alertVars, graphVars, config,
                               alerts, explanations, anomaly_scores, calls, completed>>

NextFeatures == ComputeFeatures
SpecFeatures == InitFeatures /\ [][NextFeatures]_vars

---------------------------------------------------------------------------
(* SpecGraph: a GraphModule constructed with some threshold builds the     *)
(* wallet graph of a batch and detects its communities.                    *)

MaxGraphTrades == 4

\* Two kinds of trade: the weight is 1 between trades of one kind and
\* 0.5 * (1 - 1/2) / (1 + 1) = 1/8 between trades of different kinds.
KindOne == [timestamp |-> 0, outcome |-> "yes", size |-> RatInt(2)]
KindTwo == [timestamp |-> 1, outcome |-> "no", size |-> RatInt(1)]

GraphTrade(acc, mk, kind) ==
    [account_id |-> acc, market_id |-> mk, timestamp |-> kind.timestamp,
     outcome |-> kind.outcome, size |-> kind.size, price |-> Rat(1, 2)]

\* Every account trades in both markets with trades of the first kind;
\* a and b also trade in m1 with trades of the second kind.
GraphTrades ==
    {GraphTrade(acc, mk, KindOne) : acc \in Accounts, mk \in Markets}
        \cup {GraphTrade(acc, "m1", KindTwo) : acc \in {"a", "b"}}

GraphBatches == UNION {[1..n -> GraphTrades] : n \in 0..MaxGraphTrades}

\* The default threshold, one a mixed pair meets exactly, and one above 1.0.
ThresholdChoices == {Rat(7, 10), Rat(1, 8), Rat(11, 10)}

InitGraph ==
    /\ ZooFresh /\ EnsembleFresh /\ AlertFresh /\ StoreFresh /\ PipeFresh
    /\ threshold \in ThresholdChoices
    /\ trades \in GraphBatches
    /\ graph = <<>> /\ communities = <<>>
    /\ calls = 0 /\ pc = "init"

BuildWalletGraph ==
    /\ pc = "init"
    /\ graph' = build_wallet_graph(trades, threshold)
    /\ pc' = "build_wallet_graph"
    /\ UNCHANGED <<zooVars, ensembleVars, alertVars, storeVars, pipeVars,
                   threshold, communities, trades, calls>>

DetectCommunities ==
    /\ pc = "build_wallet_graph"
    /\ communities' = detect_communities(graph)
    /\ pc' = "detect_communities"
    /\ UNCHANGED <<zooVars, ensembleVars, alertVars, storeVars, pipeVars,
                   threshold, graph, trades, calls>>

NextGraph == BuildWalletGraph \/ DetectCommunities
SpecGraph == InitGraph /\ [][NextGraph]_vars

---------------------------------------------------------------------------
(* SpecZoo: a ModelZoo, from its construction on, receives register calls  *)
(* (those of the constructor's loop and later ones).                       *)

MaxRegistrations == 4

Wrappers == [name : ModelNames, model : {"size", "profit"}, postprocess : {"None"}]

InitZoo ==
    /\ ZooFresh /\ EnsembleFresh /\ AlertFresh /\ GraphFresh /\ StoreFresh /\ PipeFresh
    /\ trades = <<>> /\ calls = 0 /\ pc = "init"

Register ==
    \E w \in Wrappers :
        LET r == register(models, w)
        IN  /\ calls < MaxRegistrations
            /\ register_arg' = w
            /\ models' = r.models
            /\ register_error' = r.raised
            /\ calls' = calls + 1
            /\ pc' = "register"
            /\ UNCHANGED <<ensembleVars, alertVars, graphVars, storeVars, pipeVars, trades>>

NextZoo == Register
SpecZoo == InitZoo /\ [][NextZoo]_vars

---------------------------------------------------------------------------
(* Spec: a pipeline, constructed in one of a few ways, performs inference  *)
(* runs and backtest runs on batches of trades.                            *)

MaxTrades == 3

\* The trades the ingestion source may deliver.
PipelineTrades ==
    { [account_id |-> "a", market_id |-> "m1", timestamp |-> 0, outcome |-> "yes",
       size |-> RatInt(10), price |-> Rat(3, 10)],
      [account_id |-> "a", market_id |-> "m1", timestamp |-> 60, outcome |-> "Yes",
       size |-> RatInt(2), price |-> Rat(3, 10)],
      [account_id |-> "b", market_id |-> "m1", timestamp |-> 0, outcome |-> "no",
       size |-> RatInt(10), price |-> Rat(1, 10)],
      [account_id |-> "b", market_id |-> "m2", timestamp |-> 86460, outcome |-> "YES",
       size |-> RatInt(2), price |-> Rat(1, 10)] }

\* The ways the pipeline and its components are constructed.
Deployments ==
    { \* one model, no weights, default thresholds, no optional component
      [wrappers |-> <<[name |-> "size", model |-> "size", postprocess |-> "None"]>>,
       weights |-> <<>>,
       critical_threshold |-> DefaultCritical, high_threshold |-> DefaultHigh,
       config |-> NoConfig],
      \* two weighted models, default thresholds, every optional component
      [wrappers |-> <<[name |-> "size", model |-> "size", postprocess |-> "None"],
                      [name |-> "profit", model |-> "profit", postprocess |-> "None"]>>,
       weights |-> <<[k |-> "size", v |-> RatInt(3)], [k |-> "profit", v |-> RatInt(1)]>>,
       critical_threshold |-> DefaultCritical, high_threshold |-> DefaultHigh,
       config |-> [sequence_module |-> TRUE, graph_module |-> TRUE,
                   anomaly_module |-> TRUE, explainability |-> TRUE,
                   detectors |-> <<"big">>,
                   markets_of_interest |-> [none |-> TRUE, markets |-> {}]]],
      \* two models, one of them unweighted, own thresholds, a market filter
      [wrappers |-> <<[name |-> "size", model |-> "size", postprocess |-> "None"],
                      [name |-> "burst", model |-> "burst", postprocess |-> "sharpen"]>>,
       weights |-> <<[k |-> "burst", v |-> RatInt(2)]>>,
       critical_threshold |-> Rat(4, 5), high_threshold |-> Rat(3, 5),
       config |-> [sequence_module |-> TRUE, graph_module |-> FALSE,
                   anomaly_module |-> FALSE, explainability |-> TRUE,
                   detectors |-> <<>>,
                   markets_of_interest |-> [none |-> FALSE, markets |-> {"m1"}]]] }

Init ==
    \E d \in Deployments :
        /\ models = ZooInit(<<>>, d.wrappers).models
        /\ register_error = FALSE /\ register_arg = NoWrapper
        /\ weights = d.weights
        /\ critical_threshold = d.critical_threshold
        /\ high_threshold = d.high_threshold
        /\ config = d.config
        /\ sent_alerts = <<>> /\ score = RatInt(0) /\ severity = "none"
        /\ GraphFresh /\ StoreFresh
        /\ alerts = <<>> /\ explanations = <<>> /\ anomaly_scores = <<>>
        /\ returned = <<>> /\ predictions = <<>> /\ combined_scores = <<>>
        /\ trades = <<>> /\ calls = 0 /\ completed = NoRuns /\ pc = "init"

RunInference ==
    \E n \in 0..(MaxTrades - HistoryLength) :
        \E recent \in [1..n -> PipelineTrades] :
            LET r == InferenceRun(recent)
            IN  /\ trades' = r.trade_events
                /\ storage' = r.storage
                /\ processed' = [acc \in Accounts |->
                                    processed[acc] \o TradesOf(r.trade_events, acc)]
                /\ predictions' = r.predictions
                /\ anomaly_scores' = r.anomaly_scores
                /\ combined_scores' = r.combined_scores
                /\ explanations' = r.explanations
                /\ alerts' = r.alerts
                /\ sent_alerts' = r.sent_alerts
                /\ returned' = r.alerts
                /\ completed' =
                      LET run == [alerts |-> r.alerts, explanations |-> r.explanations,
                                  anomaly_scores |-> r.anomaly_scores]
                      IN  [last |-> run, runs |-> completed.runs \cup {run},
                           sent |-> completed.sent \o r.alerts]
                /\ pc' = "run_inference"
                /\ UNCHANGED <<zooVars, weights, critical_threshold, high_threshold,
                               score, severity, graphVars, config, calls>>

\* A faulty variant of RunBacktest: the backtest retains its anomaly scores
\* in pipeline.anomaly_scores, as run_inference does.
RunBacktest_retaining ==
    \E n \in 0..(MaxTrades - HistoryLength) :
        \E historical_trades \in [1..n -> PipelineTrades] :
            LET r == BacktestRun(historical_trades)
            IN  /\ trades' = historical_trades
                /\ storage' = r.storage
                /\ processed' = [acc \in Accounts |->
                                    processed[acc] \o TradesOf(historical_trades, acc)]
                /\ predictions' = r.predictions
                /\ anomaly_scores' = r.anomaly_scores
                /\ returned' = r.metrics
                /\ pc' = "run_backtest"
                /\ UNCHANGED <<zooVars, weights, combined_scores, alertVars, graphVars,
                               config, alerts, explanations, calls, completed>>

RunBacktest ==
    \E n \in 0..(MaxTrades - HistoryLength) :
        \E historical_trades \in [1..n -> PipelineTrades] :
            LET r == BacktestRun(historical_trades)
            IN  /\ trades' = historical_trades
                /\ storage' = r.storage
                /\ processed' = [acc \in Accounts |->
                                    processed[acc] \o TradesOf(historical_trades, acc)]
                /\ predictions' = r.predictions
                /\ returned' = r.metrics
                /\ pc' = "run_backtest"
                /\ UNCHANGED <<zooVars, weights, combined_scores, alertVars, graphVars,
                               config, alerts, explanations, anomaly_scores, calls,
                               completed>>

\* run_inference on a batch during which one of the parts it calls raises.
RunInferenceRaises ==
    \E n \in 0..(MaxTrades - HistoryLength) :
        \E recent \in [1..n -> PipelineTrades] :
            \E stage \in Stages :
                /\ Invoked(stage, recent)
                /\ LET f == InferenceFailure(recent, stage)
                   IN  /\ trades' = f.trade_events
                       /\ storage' = f.storage
                       /\ processed' = [acc \in Accounts |->
                                           processed[acc] \o TradesOf(f.trade_events, acc)]
                       /\ anomaly_scores' = f.anomaly_scores
                /\ pc' = "run_inference_raised"
                /\ UNCHANGED <<zooVars, ensembleVars, alertVars, graphVars,
                               config, alerts, explanations, returned, calls,
                               completed>>

Next == RunInference \/ RunInferenceRaises \/ RunBacktest
Spec == Init /\ [][Next]_vars

---------------------------------------------------------------------------
(* Properties of the alert classifier (SpecSeverity).                      *)

\* x >= n/d, by cross-multiplication (x.d > 0, d > 0).
AtLeast(x, n, d) == x.n * d >= n * x.d
\* x >= y for rationals x, y.
NotBelow(x, y) == x.n * y.d >= y.n * x.d

\* C2 as stated: the tier of a score follows from the fixed breakpoints 0.9,
\* 0.7 and 0.5, however the AlertDispatcher was constructed.
C2_FixedBreakpoints ==
    pc = "_determine_severity" =>
        /\ severity = "critical" <=> AtLeast(score, 9, 10)
        /\ severity = "high" <=> AtLeast(score, 7, 10) /\ ~AtLeast(score, 9, 10)
        /\ severity = "medium" <=> AtLeast(score, 1, 2) /\ ~AtLeast(score, 7, 10)
        /\ severity = "info" <=> ~AtLeast(score, 1, 2)

\* C2 amended: the tier of a score follows from the dispatcher's two
\* constructor thresholds and the fixed breakpoint 0.5, evaluated
\* highest-first; a score on a breakpoint gets the higher tier; with the
\* default thresholds the breakpoints are 0.9, 0.7 and 0.5.
C2_ConfiguredBreakpoints ==
    pc = "_determine_severity" =>
        /\ severity \in {"critical", "high", "medium", "info"}
        /\ severity = "critical" <=> NotBelow(score, critical_threshold)
        /\ severity = "high" <=>
              /\ NotBelow(score, high_threshold)
              /\ ~NotBelow(score, critical_threshold)
        /\ severity = "medium" <=>
              /\ AtLeast(score, 1, 2)
              /\ ~NotBelow(score, high_threshold)
              /\ ~NotBelow(score, critical_threshold)
        /\ severity = "info" <=>
              /\ ~AtLeast(score, 1, 2)
              /\ ~NotBelow(score, high_threshold)
              /\ ~NotBelow(score, critical_threshold)
        /\ (critical_threshold = Rat(9, 10) /\ high_threshold = Rat(7, 10)) =>
              /\ severity = "critical" <=> AtLeast(score, 9, 10)
              /\ severity = "high" <=> AtLeast(score, 7, 10) /\ ~AtLeast(score, 9, 10)
              /\ severity = "medium" <=> AtLeast(score, 1, 2) /\ ~AtLeast(score, 7, 10)

\* A dispatcher constructed with critical_threshold = 0.8 classifies the
\* score 0.8 as critical: a breakpoint other than 0.9, hit exactly.
C2_Witness ==
    /\ pc = "_determine_severity"
    /\ critical_threshold = Rat(4, 5) /\ score = Rat(4, 5)
    /\ severity = "critical"

---------------------------------------------------------------------------
(* Properties of the ensemble combiner (SpecEnsemble).                     *)

\* The models that produced a prediction for entity e in the list preds.
ModelsFor(preds, e) ==
    {preds[j].model_name : j \in {i \in 1..Len(preds) : preds[i].entity_id = e}}

\* The score of model m for entity e: that of its last prediction in preds.
ScoreFor(preds, m, e) ==
    LET hits == {i \in 1..Len(preds) :
                    preds[i].entity_id = e /\ preds[i].model_name = m}
        last == CHOOSE i \in hits : \A j \in hits : j <= i
    IN  preds[last].score

\* The configured weight of model m, 0 when it has none.
WeightOf(w, m) ==
    IF \E i \in 1..Len(w) : w[i].k = m
    THEN w[CHOOSE i \in 1..Len(w) : w[i].k = m].v
    ELSE RatInt(0)

\* The sum of f[x] over the x in S.
RECURSIVE SumOver(_, _)
SumOver(S, f) ==
    IF S = {} THEN RatInt(0)
    ELSE LET x == CHOOSE y \in S : TRUE
         IN  RatAdd(f[x], SumOver(S \ {x}, f))

\* The combined score the contract prescribes for entity e.
ExpectedScore(preds, w, e) ==
    LET present == ModelsFor(preds, e)
        plain == SumOver(present, [m \in present |-> ScoreFor(preds, m, e)])
        total == SumOver(present, [m \in present |-> WeightOf(w, m)])
        wsum == SumOver(present, [m \in present |->
                                    RatMul(WeightOf(w, m), ScoreFor(preds, m, e))])
    IN  IF w = <<>> \/ total.n = 0
        THEN Rat(plain.n, plain.d * Cardinality(present))
        ELSE Rat(wsum.n * total.d, wsum.d * total.n)

\* C3: every combined score is the weighted sum over the present models
\* divided by their total weight (a model without a weight counting 0), or
\* the unweighted mean when no weights are configured or that total is zero;
\* combine never divides by zero.
C3_WeightedAverage ==
    pc = "combine" =>
        \A i \in 1..Len(combined_scores) :
            /\ ~IsError(combined_scores[i].score)
            /\ combined_scores[i].score =
                   ExpectedScore(predictions, weights, combined_scores[i].entity_id)

\* Weights are configured, an entity has two models whose applicable total
\* weight is zero, and combine has returned a score for it.
C3_Witness ==
    /\ pc = "combine" /\ weights # <<>>
    /\ \E i \in 1..Len(combined_scores) :
          LET present == ModelsFor(predictions, combined_scores[i].entity_id)
          IN  /\ Cardinality(present) = 2
              /\ SumOver(present, [m \in present |-> WeightOf(weights, m)]).n = 0
              /\ \E m \in present : WeightOf(weights, m).n # 0

\* C5: combine returns exactly one EnsembleScore per entity that has a
\* prediction and none for another entity, and the breakdown keys of a score
\* are exactly the models that predicted for its entity.
C5_OneScorePerEntity ==
    pc = "combine" =>
        /\ {combined_scores[i].entity_id : i \in 1..Len(combined_scores)}
               = {predictions[j].entity_id : j \in 1..Len(predictions)}
        /\ \A i, j \in 1..Len(combined_scores) :
               combined_scores[i].entity_id = combined_scores[j].entity_id => i = j
        /\ \A i \in 1..Len(combined_scores) :
               LET b == combined_scores[i].breakdown
               IN  /\ {b[x].k : x \in 1..Len(b)}
                          = ModelsFor(predictions, combined_scores[i].entity_id)
                   /\ \A x, y \in 1..Len(b) : b[x].k = b[y].k => x = y

\* One model produced two predictions for the same entity, and another
\* entity has a prediction too.
C5_Witness ==
    /\ pc = "combine"
    /\ \E i, j \in 1..Len(predictions) :
          /\ i # j
          /\ predictions[i].entity_id = predictions[j].entity_id
          /\ predictions[i].model_name = predictions[j].model_name
          /\ predictions[i].score # predictions[j].score
    /\ Len(combined_scores) = 2

---------------------------------------------------------------------------
(* Properties of the feature store (SpecFeatures).                         *)

\* C6: an account's history holds one vector per processed trade, and the
\* avg_trade_size of its k-th vector is the trade's size for k = 1 and
\* 0.5 * (avg_trade_size of the (k-1)-th vector) + 0.5 * size for k > 1;
\* a call returns one vector per trade of its batch.
C6_RollingAverage ==
    /\ \A acc \in Accounts :
          /\ Len(storage[acc]) = Len(processed[acc])
          /\ \A k \in 1..Len(storage[acc]) :
                LET avg == storage[acc][k].features.avg_trade_size
                    size == processed[acc][k].size
                IN  /\ storage[acc][k].entity_id = acc
                    /\ IF k = 1 THEN avg = size
                       ELSE LET prev == storage[acc][k-1].features.avg_trade_size
                            IN  avg = Rat(prev.n * size.d + size.n * prev.d,
                                          2 * prev.d * size.d)
    /\ pc = "compute_features" => Len(returned) = Len(trades)

\* Account a has three processed trades of different sizes, interleaved
\* with a trade of account b and spread over more than one call.
C6_Witness ==
    /\ pc = "compute_features"
    /\ Len(storage["a"]) = 3 /\ Len(storage["b"]) = 1
    /\ Len(trades) = 2 /\ trades[1].account_id = "b"
    /\ processed["a"][1].size # processed["a"][2].size
    /\ processed["a"][2].size # processed["a"][3].size
    /\ processed["a"][1].size # processed["a"][3].size

---------------------------------------------------------------------------
(* Properties of the wallet graph (SpecGraph).                             *)

\* The pairs of trades of one market, one made by a and the other by b,
\* whose co-trading weight is at or above th.
QualifyingPairs(batch, th, a, b) ==
    {p \in (1..Len(batch)) \X (1..Len(batch)) :
        /\ p[1] < p[2]
        /\ batch[p[1]].market_id = batch[p[2]].market_id
        /\ \/ batch[p[1]].account_id = a /\ batch[p[2]].account_id = b
           \/ batch[p[1]].account_id = b /\ batch[p[2]].account_id = a
        /\ NotBelow(_co_trading_weight(batch[p[1]], batch[p[2]]), th)}

PairWeightSum(batch, P) ==
    SumOver(P, [p \in P |-> _co_trading_weight(batch[p[1]], batch[p[2]])])

\* The edge list of node a in the adjacency g (empty when a is no node).
NodeEdges(g, a) ==
    IF \E i \in 1..Len(g) : g[i].k = a
    THEN g[CHOOSE i \in 1..Len(g) : g[i].k = a].v
    ELSE <<>>
\* The positions of the edges a -> b in a's edge list.
EdgesFromTo(g, a, b) ==
    {e \in 1..Len(NodeEdges(g, a)) : NodeEdges(g, a)[e].target = b}
HasEdge(g, a, b) == EdgesFromTo(g, a, b) # {}
EdgeWeight(g, a, b) ==
    NodeEdges(g, a)[CHOOSE e \in EdgesFromTo(g, a, b) : TRUE].weight

GraphBuilt == pc \in {"build_wallet_graph", "detect_communities"}

\* No account is a node of the adjacency twice.
NodesOnce(g) == \A i, j \in 1..Len(g) : g[i].k = g[j].k => i = j

\* Same market, same outcome, equal size, zero time gap.
TwinTrades(t, u) ==
    /\ t.market_id = u.market_id /\ t.outcome = u.outcome
    /\ t.size = u.size /\ t.timestamp = u.timestamp

\* What C8 says of twin trades: weight 1.0, a mutual edge at the default
\* threshold 0.7, no edge at a threshold above 1.0.
TwinTradesRule ==
    \A i, j \in 1..Len(trades) :
        (i < j /\ TwinTrades(trades[i], trades[j])) =>
            LET a == trades[i].account_id
                b == trades[j].account_id
            IN  /\ _co_trading_weight(trades[i], trades[j]) = [n |-> 1, d |-> 1]
                /\ threshold = Rat(7, 10) => HasEdge(graph, a, b) /\ HasEdge(graph, b, a)
                /\ ~AtLeast(RatInt(1), threshold.n, threshold.d) =>
                       ~HasEdge(graph, a, b) /\ ~HasEdge(graph, b, a)

\* C8 as stated: there is an edge a -> b iff some same-market pair of trades
\* of a and b qualifies, and its weight is the sum of the weights of the
\* qualifying pairs, for all a and b including a = b.
C8_EdgeWeightIsSum ==
    GraphBuilt =>
        /\ NodesOnce(graph)
        /\ \A a, b \in Accounts :
              LET Q == QualifyingPairs(trades, threshold, a, b)
              IN  /\ HasEdge(graph, a, b) <=> Q # {}
                  /\ Cardinality(EdgesFromTo(graph, a, b)) <= 1
                  /\ Q # {} => EdgeWeight(graph, a, b) = PairWeightSum(trades, Q)
        /\ TwinTradesRule

\* C8 amended: as stated for a # b; the weight of a self-edge a -> a is
\* twice the sum of the weights of the qualifying pairs of a's own trades.
C8_EdgeWeightIsSumOrTwice ==
    GraphBuilt =>
        /\ NodesOnce(graph)
        /\ \A a, b \in Accounts :
              LET Q == QualifyingPairs(trades, threshold, a, b)
              IN  /\ HasEdge(graph, a, b) <=> Q # {}
                  /\ Cardinality(EdgesFromTo(graph, a, b)) <= 1
                  /\ (Q # {} /\ a # b) =>
                         EdgeWeight(graph, a, b) = PairWeightSum(trades, Q)
                  /\ (Q # {} /\ a = b) =>
                         EdgeWeight(graph, a, a) =
                             RatMul(RatInt(2), PairWeightSum(trades, Q))
        /\ TwinTradesRule

\* Accounts a and b have a qualifying pair in each of the two markets (and a
\* pair of different markets that contributes nothing); the edge has been
\* built.
C8_Witness ==
    /\ pc = "build_wallet_graph"
    /\ \E p, q \in QualifyingPairs(trades, threshold, "a", "b") :
          trades[p[1]].market_id # trades[q[1]].market_id
    /\ HasEdge(graph, "a", "b")

\* C9: every edge a -> b of weight w has a reverse edge b -> a of weight w,
\* every edge is listed under its source, and every target is a node.
C9_Symmetric ==
    GraphBuilt =>
        \A i \in 1..Len(graph) :
            \A e \in 1..Len(graph[i].v) :
                LET edge == graph[i].v[e]
                IN  /\ edge.source = graph[i].k
                    /\ \E j \in 1..Len(graph) :
                          /\ graph[j].k = edge.target
                          /\ \E f \in 1..Len(graph[j].v) :
                                /\ graph[j].v[f].target = edge.source
                                /\ graph[j].v[f].weight = edge.weight

\* An edge between two different accounts whose weight was accumulated from
\* more than one pair, under a threshold other than the default.
C9_Witness ==
    /\ pc = "build_wallet_graph" /\ threshold # Rat(7, 10)
    /\ HasEdge(graph, "b", "c")
    /\ Cardinality(QualifyingPairs(trades, threshold, "b", "c")) >= 2
    /\ EdgeWeight(graph, "c", "b") = EdgeWeight(graph, "b", "c")

\* Two accounts are linked when a qualifying pair joins them.
Linked(a, b) == QualifyingPairs(trades, threshold, a, b) # {}
WithEdge == {a \in Accounts : \E b \in Accounts : Linked(a, b)}

\* The accounts a path of links joins to one of S.
RECURSIVE Reach(_)
Reach(S) ==
    LET next == S \cup {y \in Accounts : \E x \in S : Linked(x, y)}
    IN  IF next = S THEN S ELSE Reach(next)

\* C7: the communities are pairwise disjoint, their union is the set of
\* accounts with at least one edge, and each is a maximal connected set: it
\* holds exactly the accounts a path of edges joins to any of its members.
C7_Components ==
    pc = "detect_communities" =>
        /\ \A i, j \in 1..Len(communities) :
              i # j => communities[i] \cap communities[j] = {}
        /\ UNION {communities[i] : i \in 1..Len(communities)} = WithEdge
        /\ \A i \in 1..Len(communities) :
              /\ communities[i] # {}
              /\ \A a \in communities[i] : communities[i] = Reach({a})
        /\ \A a \in Accounts \ WithEdge :
              \A i \in 1..Len(communities) : a \notin communities[i]

\* One community of three accounts, two of which are joined only through
\* the third.
C7_Witness ==
    /\ pc = "detect_communities"
    /\ Len(communities) = 1 /\ communities[1] = {"a", "b", "c"}
    /\ ~Linked("a", "c") /\ ~Linked("a", "a")

---------------------------------------------------------------------------
(* Properties of the model registry (SpecZoo).                             *)

\* The registry never holds a name twice, and each entry is filed under its
\* wrapper's name.
UniqueNames ==
    \A i, j \in 1..Len(models) :
        /\ models[i].k = models[i].v.name
        /\ models[i].k = models[j].k => i = j

\* What one register call does: a duplicate name raises and changes
\* nothing; a new name adds exactly its entry, after the others.
RegisterStep ==
    pc' = "register" =>
        IF \E i \in 1..Len(models) : models[i].k = register_arg'.name
        THEN register_error' /\ models' = models
        ELSE /\ ~register_error'
             /\ models' = Append(models, [k |-> register_arg'.name, v |-> register_arg'])

\* C10: names are unique in the registry; registering a registered name
\* raises and leaves the registry unchanged (first registration wins); a new
\* name adds exactly one entry and changes no other.
C10_UniqueNames == []UniqueNames /\ [][RegisterStep]_vars

\* A register call with a registered name and a different model has raised,
\* and the name still maps to the wrapper registered first.
C10_Witness ==
    /\ pc = "register" /\ register_error
    /\ \E i \in 1..Len(models) :
          /\ models[i].k = register_arg.name
          /\ models[i].v # register_arg
    /\ Len(models) = 2

---------------------------------------------------------------------------
(* Properties of the pipeline (Spec).                                      *)

\* The score s is below every breakpoint of the dispatcher.
InfoTier(s) ==
    /\ ~NotBelow(s, critical_threshold)
    /\ ~NotBelow(s, high_threshold)
    /\ ~AtLeast(s, 1, 2)

NoInfoIn(list) ==
    \A i \in 1..Len(list) : list[i].severity \in {"critical", "high", "medium"}

\* C1: no alert has severity "info", in pipeline.alerts, in the list
\* run_inference returned or in the sink sent_alerts, and an entity whose
\* combined score is in the info tier has no alert in the run's list.
C1_NoInfoAlert ==
    /\ NoInfoIn(alerts)
    /\ NoInfoIn(sent_alerts)
    /\ pc = "run_inference" => NoInfoIn(returned)
    /\ \A i \in 1..Len(combined_scores) :
          InfoTier(combined_scores[i].score) =>
              \A j \in 1..Len(alerts) :
                  alerts[j].entity_id # combined_scores[i].entity_id

\* An inference run scored one entity in the info tier and another above
\* it, after an earlier run had already sent alerts.
C1_Witness ==
    /\ pc = "run_inference"
    /\ Len(combined_scores) = 2 /\ Len(alerts) = 1
    /\ \E i \in 1..2 : InfoTier(combined_scores[i].score)
    /\ Len(sent_alerts) > Len(alerts)

RunDone == pc \in {"run_inference", "run_backtest"}

\* The number of predictions of model m for entity e in the last run.
PredictionCount(m, e) ==
    Cardinality({i \in 1..Len(predictions) :
                    predictions[i].model_name = m /\ predictions[i].entity_id = e})

\* C4 as stated: a run produces exactly one prediction for each registered
\* model and each entity with a trade in the batch.
C4_OnePerModelAndEntity ==
    RunDone =>
        \A m \in DictKeys(models) :
            \A e \in {trades[i].account_id : i \in 1..Len(trades)} :
                PredictionCount(m, e) = 1

\* C4 amended: a run produces exactly one prediction for each registered
\* model and each feature vector, that is each trade record of the batch: an
\* entity with k trades in the batch gets k predictions of every model, and
\* an entity without a trade none.
C4_OnePerModelAndVector ==
    RunDone =>
        /\ Len(predictions) = Len(models) * Len(trades)
        /\ \A i \in 1..Len(predictions) : predictions[i].model_name \in DictKeys(models)
        /\ \A m \in DictKeys(models) :
              \A e \in Accounts :
                  PredictionCount(m, e) = Len(TradesOf(trades, e))

\* A run with two registered models on a batch in which account a has two
\* trades and account b one.
C4_Witness ==
    /\ pc = "run_inference" /\ Len(models) = 2
    /\ Len(TradesOf(trades, "a")) = 2 /\ Len(TradesOf(trades, "b")) = 1
    /\ Len(predictions) = 6

\* What the pipeline retains: alerts, explanations and anomaly_scores.
Retained ==
    [alerts |-> alerts, explanations |-> explanations, anomaly_scores |-> anomaly_scores]

\* The retained states that stem from one completed run: what some completed
\* inference run assigned or, before the first one, the three empty lists.
FromOneRun == IF completed.runs = {} THEN {NoRun} ELSE completed.runs

\* C11: a failed inference run leaves no partial result.  After a
\* run_inference that raised, nothing was returned, pipeline.alerts and the
\* sink sent_alerts hold no alert of the failed run (they are as the
\* completed runs left them), and pipeline.alerts, pipeline.explanations and
\* pipeline.anomaly_scores all stem from one and the same completed run.
C11_NoPartialResult ==
    pc = "run_inference_raised" =>
        /\ alerts = completed.last.alerts
        /\ sent_alerts = completed.sent
        /\ Retained \in FromOneRun

\* A completed run on one batch was followed by a run on another batch in
\* which the explainability component raised: the anomaly scores are those
\* of the failed run, the alerts and explanations those of the completed one.
C11_Witness ==
    /\ pc = "run_inference_raised"
    /\ completed.runs # {} /\ alerts # <<>> /\ explanations # <<>>
    /\ anomaly_scores # <<>>
    /\ anomaly_scores # completed.last.anomaly_scores
    /\ \A i \in 1..Len(anomaly_scores) :
          anomaly_scores[i].entity_id = trades[1].account_id

\* A metrics mapping: a float per key, the keys being names of registered
\* models, "communities_detected" and "avg_anomaly_score".
IsMetrics(m) ==
    \A i \in 1..Len(m) :
        /\ m[i].k \in DictKeys(models) \cup {"communities_detected", "avg_anomaly_score"}
        /\ DOMAIN m[i].v = {"n", "d"} /\ m[i].v.d > 0

\* The history of every account after the step is its history before it
\* followed by one feature vector per trade of the account in the batch.
HistoryGrows ==
    \A acc \in Accounts :
        /\ Len(storage'[acc]) = Len(storage[acc]) + Len(TradesOf(trades', acc))
        /\ SubSeq(storage'[acc], 1, Len(storage[acc])) = storage[acc]

\* C12: a backtest run never produces alerts.  Every run_backtest step, from
\* any pipeline state and on any batch, returns a metrics mapping, leaves
\* pipeline.alerts, pipeline.explanations, pipeline.anomaly_scores and the
\* sink sent_alerts unchanged, and changes no state of the components other
\* than the feature store's per-account history, which it extends.
C12_BacktestChangesOnlyHistory ==
    [][pc' = "run_backtest" =>
          /\ IsMetrics(returned')
          /\ alerts' = alerts /\ explanations' = explanations
          /\ anomaly_scores' = anomaly_scores /\ sent_alerts' = sent_alerts
          /\ UNCHANGED <<models, weights, critical_threshold, high_threshold,
                         threshold, config>>
          /\ HistoryGrows]_vars

\* A backtest on a non-empty batch, with the anomaly and graph components
\* present, of a pipeline that retains alerts, explanations and anomaly
\* scores of an earlier inference run.
C12_Witness ==
    /\ pc = "run_backtest" /\ trades # <<>>
    /\ alerts # <<>> /\ sent_alerts # <<>> /\ explanations # <<>>
    /\ anomaly_scores # <<>>
    /\ DictHas(returned, "avg_anomaly_score")
    /\ DictHas(returned, "communities_detected")
    /\ \E acc \in Accounts : Len(storage[acc]) = 2

\* The retained anomaly scores are those of the most recent completed run.
LastScoresRetained == anomaly_scores = completed.last.anomaly_scores

\* C13: alerts are replaced, the sink accumulates.  In every state the sink
\* sent_alerts is the concatenation, in run order, of the alert lists of the
\* completed inference runs, and pipeline.alerts and pipeline.explanations
\* are those of the most recent completed run; when run_inference has just
\* returned, what it returned is pipeline.alerts and pipeline.anomaly_scores
\* are that run's; and the anomaly scores stay those of the most recent
\* completed run through every step in which run_inference does not raise.
C13_ReplacedAndAccumulated ==
    /\ [](/\ sent_alerts = completed.sent
          /\ alerts = completed.last.alerts
          /\ explanations = completed.last.explanations
          /\ pc = "run_inference" => returned = alerts /\ LastScoresRetained)
    /\ [][LastScoresRetained /\ pc' # "run_inference_raised" =>
              LastScoresRetained']_vars

\* A second completed inference run alerted on another entity than the
\* first: pipeline.alerts holds the second run's alert only, the sink both.
C13_Witness ==
    /\ pc = "run_inference" /\ Cardinality(completed.runs) = 2
    /\ Len(alerts) = 1 /\ Len(sent_alerts) = 2
    /\ sent_alerts[1].entity_id # alerts[1].entity_id
    /\ sent_alerts[2] = alerts[1]
    /\ explanations # <<>> /\ anomaly_scores # <<>>

=============================================================================
